---- MODULE Spec2Model ----
(***************************************************************************)
(* Lifecycle controller of the single managed Java container.              *)
(*                                                                         *)
(* Modelled sources:                                                       *)
(*   src/lib/JavaContainerManager.py  (the runtime gateway and the         *)
(*                                     persistence store)                  *)
(*   src/ui/java_container_ui.py      (the controller: one script run of   *)
(*                                     render_java_container_section is    *)
(*                                     one read cycle, optionally with a   *)
(*                                     button pressed)                     *)
(*                                                                         *)
(* One script run is one atomic step.  The runtime (container status,      *)
(* workload processes) changes between script runs through the environment *)
(* actions; within a run every gateway call may in addition fail with a    *)
(* transport error, chosen by the fault record f.                          *)
(***************************************************************************)
EXTENDS Integers, Sequences, FiniteSets, TLC

\* ------------------------------------------------------------------ bounds
MaxProcs   == 2   \* workload processes that can coexist in the container
MaxClock   == 2   \* distinct wall-clock readings
MaxLog     == 2   \* lines the workload can append to the host log
MaxReports == 2   \* cap of the Completed-report counter

\* --------------------------------------------------------------- constants
NoneV         == "None"                 \* Python None
ContainerName == "java-app-persistent"
HostLogFile   == "java_app/app_host.log"

\* st.number_input("Iterations", min_value=1, max_value=400, value=20)
IterMin     == 1
IterMax     == 400
IterDefault == 20

\* statuses the runtime reports for a container; "absent" is NotFound
Statuses == {"absent", "running", "exited", "created", "paused"}

Truthy(x) == x # NoneV /\ x # ""

VARIABLES
    cstatus,            \* runtime: status of the container named ContainerName
    procs,              \* runtime: java App processes alive in the container
    kill_pending,       \* runtime: a detached "pkill -9 java" not yet effective
    state_file,         \* java_app/process_state.json: [exists, data]
    host_log,           \* java_app/app_host.log: [exists, lines]
    session,            \* st.session_state of the controller instance
    widgets,            \* buttons the frontend shows enabled (from the last run)
    clock,              \* datetime.now()
    last,               \* what the last controller operation did and reported
    written,            \* arguments of the last save_process_state call
    completed_reports   \* Completed reports since the last successful launch

vars == <<cstatus, procs, kill_pending, state_file, host_log, session, widgets,
          clock, last, written, completed_reports>>

\* ------------------------------------------------- persistence (JSON file)
\* json.dump writes the object as a run of chunks; a chunk is modelled as a
\* record of strings: the opening brace, one chunk per key/value, the closing
\* brace.
EncNull     == [t |-> "null", v |-> "null"]
EncBool(b)  == [t |-> "bool", v |-> IF b THEN "true" ELSE "false"]
EncOptStr(x) == IF x = NoneV THEN EncNull ELSE [t |-> "str", v |-> x]

Chunk(k, e) == [k |-> k, t |-> e.t, v |-> e.v]
OpenBrace   == [k |-> "{", t |-> "punct", v |-> "{"]
CloseBrace  == [k |-> "}", t |-> "punct", v |-> "}"]

DecOptStr(c) == IF c.t = "null" THEN NoneV ELSE c.v
DecBool(c)   == c.t = "bool" /\ c.v = "true"

NoFile == [exists |-> FALSE, data |-> <<>>]

\* json.dump of the five-key object (JavaContainerManager.py:27-33)
json_dump(pid, log_file, start_time, is_running, container_name) ==
    << OpenBrace,
       Chunk("pid", EncOptStr(pid)),
       Chunk("log_file", EncOptStr(log_file)),
       Chunk("start_time", EncOptStr(start_time)),
       Chunk("is_running", EncBool(is_running)),
       Chunk("container_name", EncOptStr(container_name)),
       CloseBrace >>

NChunks == Len(json_dump(NoneV, NoneV, NoneV, FALSE, NoneV))

\* json.load: the text parses only if it is a complete object
json_valid(data) ==
    /\ Len(data) >= 2
    /\ data[1] = OpenBrace
    /\ data[Len(data)] = CloseBrace
    /\ \A i \in 2..(Len(data) - 1) : data[i].t # "punct"

json_keys(data) == { data[i].k : i \in 2..(Len(data) - 1) }

json_get(data, k) == (CHOOSE i \in 2..(Len(data) - 1) : data[i].k = k)

NoState == [ok |-> FALSE, keys |-> {}, data |-> <<>>]

\* load_process_state: None when the file is missing or does not parse
load_process_state(file) ==
    IF file.exists
    THEN IF json_valid(file.data)
         THEN [ok |-> TRUE, keys |-> json_keys(file.data), data |-> file.data]
         ELSE NoState
    ELSE NoState

\* dict.get(key, default) on a loaded state
StateGetStr(st, k, default) ==
    IF k \in st.keys THEN DecOptStr(st.data[json_get(st.data, k)]) ELSE default
StateGetBool(st, k, default) ==
    IF k \in st.keys THEN DecBool(st.data[json_get(st.data, k)]) ELSE default

\* `if state:` - a loaded dict is truthy when it has at least one key
StateTruthy(st) == st.ok /\ st.keys # {}

\* variant: the start time is not written
save_process_state_no_time(pid, log_file, start_time, is_running, container_name, cut) ==
    [exists |-> TRUE,
     data   |-> SubSeq(json_dump(pid, log_file, NoneV, is_running,
                                 IF Truthy(container_name) THEN container_name
                                 ELSE ContainerName), 1, cut)]

\* save_process_state; `cut` is the number of chunks that reach the disk before
\* the process dies (NChunks: the write completes).  open(..., 'w') truncates
\* the file first, so nothing of an older state survives.
save_process_state(pid, log_file, start_time, is_running, container_name, cut) ==
    [exists |-> TRUE,
     data   |-> SubSeq(json_dump(pid, log_file, start_time, is_running,
                                 IF Truthy(container_name) THEN container_name
                                 ELSE ContainerName), 1, cut)]

clear_process_state(file) == NoFile

\* ------------------------------------------------------------ log artifact
NoLog == [exists |-> FALSE, lines |-> <<>>]

prepare_log_file(log) == [exists |-> TRUE, lines |-> <<>>]

\* variant: only what was written last is returned
read_logs_tail(log) ==
    IF log.exists /\ log.lines # <<>>
    THEN <<log.lines[Len(log.lines)]>>
    ELSE <<>>

\* read_logs: the whole file, "" when there is none
read_logs(log) == IF log.exists THEN log.lines ELSE <<>>


\* ---------------------------------------------------------- runtime gateway
\* docker_client.containers.get(name): the model's runtime holds one container
Lookup(cst, name) == IF name = ContainerName THEN cst ELSE "absent"

\* get_container_status: container.status, None on NotFound and on any other
\* exception (`fault`: the runtime could not be reached)
get_container_status(cst, name, fault) ==
    IF fault THEN NoneV
    ELSE IF Lookup(cst, name) = "absent" THEN NoneV
    ELSE Lookup(cst, name)

is_container_running(cst, name, fault) ==
    get_container_status(cst, name, fault) = "running"

\* variant: a probe that could not be made counts as a workload found
is_java_process_running_fault_positive(cst, np, name, fault) ==
    IF fault THEN TRUE
    ELSE IF Lookup(cst, name) # "running" THEN FALSE
    ELSE np > 0

\* is_java_process_running: pgrep inside the container; exit code 0 when a
\* java App process exists.  NotFound, an exec on a container that is not
\* running and a transport error all give False.
is_java_process_running(cst, np, name, fault) ==
    IF fault THEN FALSE
    ELSE IF Lookup(cst, name) # "running" THEN FALSE
    ELSE np > 0

build_image(fault) == [ok |-> ~fault]

\* variant: a stopped container is replaced instead of started
get_or_create_container_swapped(cst, fault_find, fault_resolve) ==
    IF fault_find
    THEN [outcome |-> "raise", action |-> "none", cst |-> cst,
          calls |-> <<"findContainer">>, faulted |-> {"findContainer"}]
    ELSE IF cst = "running"
    THEN [outcome |-> "ok", action |-> "reused", cst |-> cst,
          calls |-> <<"findContainer">>, faulted |-> {}]
    ELSE IF cst \in {"exited", "absent"}
    THEN IF fault_resolve
         THEN [outcome |-> "raise", action |-> "none", cst |-> cst,
               calls |-> <<"findContainer", "createAndStart">>,
               faulted |-> {"createAndStart"}]
         ELSE [outcome |-> "ok", action |-> "created", cst |-> "running",
               calls |-> <<"findContainer", "createAndStart">>, faulted |-> {}]
    ELSE [outcome |-> "none", action |-> "none", cst |-> cst,
          calls |-> <<"findContainer">>, faulted |-> {}]

\* get_or_create_container: outcome "ok" (a (container, action) pair),
\* "raise" (an exception leaves the function) or "none" (the function falls
\* off its end and returns None)
get_or_create_container(cst, fault_find, fault_resolve) ==
    IF fault_find
    THEN [outcome |-> "raise", action |-> "none", cst |-> cst,
          calls |-> <<"findContainer">>, faulted |-> {"findContainer"}]
    ELSE IF cst = "running"
    THEN [outcome |-> "ok", action |-> "reused", cst |-> cst,
          calls |-> <<"findContainer">>, faulted |-> {}]
    ELSE IF cst = "exited"
    THEN IF fault_resolve
         THEN [outcome |-> "raise", action |-> "none", cst |-> cst,
               calls |-> <<"findContainer", "startExisting">>,
               faulted |-> {"startExisting"}]
         ELSE [outcome |-> "ok", action |-> "started", cst |-> "running",
               calls |-> <<"findContainer", "startExisting">>, faulted |-> {}]
    ELSE IF cst = "absent"
    THEN IF fault_resolve
         THEN [outcome |-> "raise", action |-> "none", cst |-> cst,
               calls |-> <<"findContainer", "createAndStart">>,
               faulted |-> {"createAndStart"}]
         ELSE [outcome |-> "ok", action |-> "created", cst |-> "running",
               calls |-> <<"findContainer", "createAndStart">>, faulted |-> {}]
    ELSE [outcome |-> "none", action |-> "none", cst |-> cst,
          calls |-> <<"findContainer">>, faulted |-> {}]

\* execute_java_app: container.exec_run("java -cp /app App", detach=True)
execute_java_app(fault) == [ok |-> ~fault]

\* stop_java_app: containers.get, then exec_run("pkill -9 java", detach=True)
stop_java_app(cst, name, fault) ==
    [ok |-> ~fault /\ Lookup(cst, name) = "running"]

\* remove_container: containers.get, then container.remove(force=True)
remove_container(cst, name, fault) ==
    [ok |-> ~fault /\ Lookup(cst, name) # "absent"]

\* datetime.now().strftime("%Y-%m-%d %H:%M:%S")
strftime(now) == ToString(now)


\* ------------------------------------------------------------- controller
\* The record of one controller operation: what it observed, did and showed.
Idle ==
    [op          |-> "none",       \* "render", "remove", "crash", "restart"
     click       |-> "none",       \* the button whose press started the run
     loaded      |-> FALSE,        \* initialization found a persisted state
     pre_belief  |-> FALSE,        \* is_running after initialization
     polled      |-> FALSE,        \* _render_running_state ran
     seen_status |-> "unchecked",  \* what get_container_status returned
     seen_probe  |-> "unchecked",  \* "pos" / "neg": is_java_process_running
     view        |-> "Absent",     \* "Active" / "Completed" / "Absent"
     logs        |-> <<>>,         \* log contents shown
     button      |-> "unreached",  \* Build & Run: "enabled" / "disabled"
     handler     |-> "none",       \* "stop" / "launch" / "remove"
     result      |-> "none",       \* "ok" / "error": the handler's message
     action      |-> "none",       \* "reused" / "started" / "created"
     found       |-> "unchecked",  \* status get_or_create_container found
     calls       |-> <<>>,         \* gateway operations issued, in order
     steps       |-> <<>>,         \* launch steps taken, in order
     faulted     |-> {},           \* gateway operations that failed
     raised      |-> FALSE,        \* an exception left the section (every
                                   \* gateway call sits in a try/except,
                                   \* so no modelled fault sets it)
     unpacked    |-> TRUE,         \* FALSE: get_or_create returned None
     typed       |-> IterDefault,  \* what the iterations field shows
     iterations  |-> 0,            \* what st.number_input returned
     sent        |-> 0,            \* ITERATIONS handed to the gateway
     wrote       |-> FALSE,        \* save_process_state was called
     pre_file    |-> NoFile,       \* the state file when the operation began
     pre_log     |-> <<>>]         \* the log contents when the operation began

FreshSession ==
    [init |-> FALSE, process_pid |-> NoneV, is_running |-> FALSE,
     log_file |-> NoneV, start_time |-> NoneV, container_name |-> NoneV]

NoWrite ==
    [pid |-> NoneV, log_file |-> NoneV, start_time |-> NoneV,
     is_running |-> FALSE, container_name |-> NoneV]

\* The running script: session state, files and runtime as the script has
\* changed them so far, the report, the widgets rendered, and whether the
\* script has ended (st.rerun()) or the process has died.
Context(click) ==
    [s |-> session, file |-> state_file, log |-> host_log, cst |-> cstatus,
     np |-> procs, kill |-> kill_pending, now |-> clock, wr |-> written,
     r |-> [Idle EXCEPT !.op = "render", !.click = click,
                        !.pre_file = state_file,
                        !.pre_log = host_log.lines],
     w |-> {}, ended |-> FALSE, crashed |-> FALSE]

\* The one element of a one-element set.  An operator below binds its
\* context argument through such a set, so that the argument is computed
\* once however often the body refers to it.
Once(S) == CHOOSE x \in S : TRUE

\* st.button: True in the run that a press of this button started.  The
\* `disabled` flag only decides whether the frontend lets the button be
\* pressed (see `widgets`); it is not part of what the call returns.
st_button(click, label) == click = label

\* variant: the field has no bounds
number_input_unbounded(typed, committed) == typed

\* st.number_input with min_value and max_value: the frontend commits an
\* entry only when it lies within the bounds; otherwise the script keeps
\* receiving the value committed before (`committed`, itself within bounds)
number_input(typed, committed) ==
    IF IterMin <= typed /\ typed <= IterMax THEN typed ELSE committed

\* _render_input_fields (java_container_ui.py:122-130)
render_input_fields(c0, f) ==
    Once({ (
        [c EXCEPT !.r.typed = f.typed,
                  !.r.iterations = number_input(f.typed, f.committed)]
        ) : c \in {c0} })

\* the path the controller reads is the one log artifact of the model
LogAt(c, path) == IF path = HostLogFile THEN c.log ELSE NoLog

\* _initialize_session_state (java_container_ui.py:36-51)
initialize_session_state(c0) ==
    Once({ (
        IF c.s.init THEN [c EXCEPT !.r.pre_belief = c.s.is_running]
        ELSE LET state == load_process_state(c.file)
                 s1 == IF StateTruthy(state)
                       THEN [init |-> TRUE,
                             process_pid |-> StateGetStr(state, "pid", NoneV),
                             is_running |-> StateGetBool(state, "is_running", FALSE),
                             log_file |-> StateGetStr(state, "log_file", NoneV),
                             start_time |-> StateGetStr(state, "start_time", NoneV),
                             container_name |->
                                 StateGetStr(state, "container_name", ContainerName)]
                       ELSE [init |-> TRUE, process_pid |-> NoneV,
                             is_running |-> FALSE, log_file |-> NoneV,
                             start_time |-> NoneV, container_name |-> ContainerName]
             IN  [c EXCEPT !.s = s1, !.r.loaded = StateTruthy(state),
                           !.r.pre_belief = s1.is_running]
        ) : c \in {c0} })

\* _show_final_logs (java_container_ui.py:85-91)
show_final_logs(c0) ==
    Once({ (
        IF Truthy(c.s.log_file)
        THEN [c EXCEPT !.r.logs = read_logs(LogAt(c, c.s.log_file))]
        ELSE c
        ) : c \in {c0} })

\* variant: a successful stop corrects the belief but leaves the state file
render_stop_button_keep_file(c0, click, f) ==
    Once({ (
        LET c1 == [c EXCEPT !.w = c.w \cup {"stop"}]
        IN  IF st_button(click, "stop")
            THEN LET res == stop_java_app(c1.cst, c1.s.container_name, f.kill)
                     c2  == [c1 EXCEPT !.r.handler = "stop",
                                       !.r.calls = Append(c1.r.calls, "kill")]
                 IN  IF res.ok
                     THEN [c2 EXCEPT !.s.is_running = FALSE,
                                     !.kill = TRUE,
                                     !.r.result = "ok",
                                     !.ended = TRUE]
                     ELSE [c2 EXCEPT !.r.result = "error",
                                     !.r.faulted = c2.r.faulted \cup {"kill"}]
            ELSE c1
        ) : c \in {c0} })

\* _render_stop_button (java_container_ui.py:94-105)
render_stop_button(c0, click, f) ==
    Once({ (
        LET c1 == [c EXCEPT !.w = c.w \cup {"stop"}]
        IN  IF st_button(click, "stop")
            THEN LET res == stop_java_app(c1.cst, c1.s.container_name, f.kill)
                     c2  == [c1 EXCEPT !.r.handler = "stop",
                                       !.r.calls = Append(c1.r.calls, "kill")]
                 IN  IF res.ok
                     THEN [c2 EXCEPT !.s.is_running = FALSE,
                                     !.file = clear_process_state(c2.file),
                                     !.kill = TRUE,
                                     !.r.result = "ok",
                                     !.ended = TRUE]
                     ELSE [c2 EXCEPT !.r.result = "error",
                                     !.r.faulted = c2.r.faulted \cup {"kill"}]
            ELSE c1
        ) : c \in {c0} })

\* variant: the script goes on to the launch button
stream_live_logs_no_rerun(c0) ==
    Once({ (
        IF c.ended THEN c
        ELSE IF Truthy(c.s.log_file)
        THEN [c EXCEPT !.r.logs = read_logs(LogAt(c, c.s.log_file))]
        ELSE c
        ) : c \in {c0} })

\* _stream_live_logs (java_container_ui.py:108-119): shows the whole log and
\* ends the script with st.rerun()
stream_live_logs(c0) ==
    Once({ (
        IF c.ended THEN c
        ELSE IF Truthy(c.s.log_file)
        THEN [c EXCEPT !.r.logs = read_logs(LogAt(c, c.s.log_file)),
                       !.ended = TRUE]
        ELSE c
        ) : c \in {c0} })


\* variant: the belief is corrected in memory only
report_completed_keep_file(c0) ==
    Once({ (
        show_final_logs([c EXCEPT !.s.is_running = FALSE,
                                  !.r.view = "Completed"])
        ) : c \in {c0} })

\* the two "workload is gone" branches of _render_running_state
\* (java_container_ui.py:57-63 and 66-72)
report_completed(c0) ==
    Once({ (
        show_final_logs([c EXCEPT !.s.is_running = FALSE,
                                  !.file = clear_process_state(c.file),
                                  !.r.view = "Completed"])
        ) : c \in {c0} })

\* variant: a running container is taken as proof of a running workload
render_running_state_no_probe(c0, click, f) ==
    Once({ (
        LET name == c.s.container_name
            st   == get_container_status(c.cst, name, f.status)
            c1   == [c EXCEPT !.r.polled = TRUE,
                              !.r.seen_status = st,
                              !.r.calls = Append(c.r.calls, "containerStatus"),
                              !.r.faulted = c.r.faulted \cup
                                  (IF f.status THEN {"containerStatus"} ELSE {})]
        IN  IF ~is_container_running(c.cst, name, f.status)
            THEN report_completed(c1)
            ELSE stream_live_logs(
                     render_stop_button([c1 EXCEPT !.r.view = "Active"], click, f))
        ) : c \in {c0} })

\* _render_running_state (java_container_ui.py:54-82)
render_running_state(c0, click, f) ==
    Once({ (
        LET name == c.s.container_name
            st   == get_container_status(c.cst, name, f.status)
            c1   == [c EXCEPT !.r.polled = TRUE,
                              !.r.seen_status = st,
                              !.r.calls = Append(c.r.calls, "containerStatus"),
                              !.r.faulted = c.r.faulted \cup
                                  (IF f.status THEN {"containerStatus"} ELSE {})]
        IN  IF ~is_container_running(c.cst, name, f.status)
            THEN report_completed(c1)
            ELSE LET alive == is_java_process_running(c1.cst, c1.np, name, f.probe)
                     c2 == [c1 EXCEPT !.r.seen_probe = IF alive THEN "pos" ELSE "neg",
                                      !.r.calls = Append(c1.r.calls, "probe"),
                                      !.r.faulted = c1.r.faulted \cup
                                          (IF f.probe THEN {"probe"} ELSE {})]
                 IN  IF ~alive
                     THEN report_completed(c2)
                     ELSE stream_live_logs(
                              render_stop_button([c2 EXCEPT !.r.view = "Active"],
                                                 click, f))
        ) : c \in {c0} })

\* the except branch and the failure branches of the launch
\* (java_container_ui.py:151-154, 195-198, 200-203)
launch_failed(c0) ==
    Once({ (
        [c EXCEPT !.r.result = "error",
                  !.s.is_running = FALSE,
                  !.file = clear_process_state(c.file)]
        ) : c \in {c0} })

\* variant: the state is saved before the workload is started, and a failed
\* start only reports the error
ui_execute_java_app_persist_first(c0, f, cut) ==
    Once({ (
        LET g  == get_or_create_container(c.cst, f.find, f.resolve)
            c1 == [c EXCEPT !.cst = g.cst,
                            !.r.sent = c.r.iterations,
                            !.r.steps = Append(c.r.steps, "resolve"),
                            !.r.found = IF f.find THEN "unchecked" ELSE c.cst,
                            !.r.calls = c.r.calls \o g.calls,
                            !.r.faulted = c.r.faulted \cup g.faulted]
        IN  IF g.outcome = "raise" THEN launch_failed(c1)
            ELSE IF g.outcome = "none"
            THEN launch_failed([c1 EXCEPT !.r.unpacked = FALSE])
            ELSE LET e  == execute_java_app(f.exec)
                     start_time == strftime(c1.now)
                     c2 == [c1 EXCEPT
                              !.r.action = g.action,
                              !.r.calls = Append(c1.r.calls, "execDetached"),
                              !.r.steps = c1.r.steps \o <<"persist", "execDetached">>,
                              !.s.process_pid = NoneV,
                              !.s.is_running = TRUE,
                              !.s.log_file = HostLogFile,
                              !.s.start_time = start_time,
                              !.s.container_name = ContainerName,
                              !.file = save_process_state(NoneV, HostLogFile,
                                           start_time, TRUE, ContainerName, cut),
                              !.wr = [pid |-> NoneV, log_file |-> HostLogFile,
                                      start_time |-> start_time,
                                      is_running |-> TRUE,
                                      container_name |-> ContainerName],
                              !.r.wrote = TRUE,
                              !.crashed = cut < NChunks]
                 IN  IF e.ok
                     THEN [c2 EXCEPT !.np = c2.np + 1, !.r.result = "ok",
                                     !.ended = TRUE]
                     ELSE [c2 EXCEPT !.r.result = "error",
                                     !.r.faulted = c2.r.faulted \cup {"execDetached"}]
        ) : c \in {c0} })

\* _execute_java_app (java_container_ui.py:163-203)
ui_execute_java_app(c0, f, cut) ==
    Once({ (
        LET g  == get_or_create_container(c.cst, f.find, f.resolve)
            c1 == [c EXCEPT !.cst = g.cst,
                            !.r.sent = c.r.iterations,
                            !.r.steps = Append(c.r.steps, "resolve"),
                            !.r.found = IF f.find THEN "unchecked" ELSE c.cst,
                            !.r.calls = c.r.calls \o g.calls,
                            !.r.faulted = c.r.faulted \cup g.faulted]
        IN  IF g.outcome = "raise" THEN launch_failed(c1)
            ELSE IF g.outcome = "none"
            THEN launch_failed([c1 EXCEPT !.r.unpacked = FALSE])
            ELSE LET e  == execute_java_app(f.exec)
                     c2 == [c1 EXCEPT !.r.action = g.action,
                                      !.r.steps = Append(c1.r.steps, "execDetached"),
                                      !.r.calls = Append(c1.r.calls, "execDetached")]
                 IN  IF e.ok
                     THEN LET start_time == strftime(c2.now)
                          IN  [c2 EXCEPT
                                !.np = c2.np + 1,
                                !.s.process_pid = NoneV,
                                !.s.is_running = TRUE,
                                !.s.log_file = HostLogFile,
                                !.s.start_time = start_time,
                                !.s.container_name = ContainerName,
                                !.file = save_process_state(NoneV, HostLogFile,
                                             start_time, TRUE, ContainerName, cut),
                                !.wr = [pid |-> NoneV, log_file |-> HostLogFile,
                                        start_time |-> start_time,
                                        is_running |-> TRUE,
                                        container_name |-> ContainerName],
                                !.r.wrote = TRUE,
                                !.r.steps = Append(c2.r.steps, "persist"),
                                !.r.result = "ok",
                                !.crashed = cut < NChunks,
                                !.ended = TRUE]
                     ELSE launch_failed(
                              [c2 EXCEPT !.r.faulted = c2.r.faulted \cup {"execDetached"}])
        ) : c \in {c0} })

\* _render_build_run_button (java_container_ui.py:133-160)
render_build_run_button(c0, click, f, cut) ==
    Once({ (
        LET button_disabled == c.s.is_running
            c1 == [c EXCEPT !.w = IF button_disabled THEN c.w
                                  ELSE c.w \cup {"build_run"},
                            !.r.button = IF button_disabled THEN "disabled"
                                         ELSE "enabled"]
        IN  IF st_button(click, "build_run")
            THEN LET c2 == [c1 EXCEPT !.r.handler = "launch",
                                      !.log = prepare_log_file(c1.log),
                                      !.r.steps = <<"logReset", "buildImage">>,
                                      !.r.calls = Append(c1.r.calls, "buildImage")]
                 IN  IF ~build_image(f.build).ok
                     THEN launch_failed(
                              [c2 EXCEPT !.r.faulted = c2.r.faulted \cup {"buildImage"}])
                     ELSE ui_execute_java_app(c2, f, cut)
            ELSE c1
        ) : c \in {c0} })

\* render_java_container_section (java_container_ui.py:7-32)
render_java_container_section(c0, click, f, cut) ==
    Once({ (
        LET c1 == initialize_session_state(c)
            c2 == IF c1.s.is_running /\ Truthy(c1.s.container_name)
                  THEN render_running_state(c1, click, f)
                  ELSE [c1 EXCEPT !.s.is_running = FALSE,
                                  !.file = clear_process_state(c1.file)]
        IN  IF c2.ended THEN c2
            ELSE render_build_run_button(render_input_fields(c2, f), click, f, cut)
        ) : c \in {c0} })


\* variant: the button is offered whatever the belief
remove_button_shown_unguarded(s, cst, fs) ==
    s.init /\ get_container_status(cst, ContainerName, fs) # NoneV

\* _render_remove_container_button (java_container_ui.py:206-215).  The
\* function is defined by the module but render_java_container_section does
\* not call it; it is modelled as the operation it defines.  `shown` is its
\* guard, fs the fault of its status query, fr the fault of the removal.
remove_button_shown(s, cst, fs) ==
    s.init /\ ~s.is_running /\ get_container_status(cst, ContainerName, fs) # NoneV

render_remove_container_button(c0, fr) ==
    Once({ (
        LET res == remove_container(c.cst, ContainerName, fr)
            c1  == [c EXCEPT !.r.op = "remove",
                             !.r.click = "remove",
                             !.r.pre_belief = c.s.is_running,
                             !.r.handler = "remove",
                             !.r.calls = <<"containerStatus", "removeContainer">>]
        IN  IF res.ok
            THEN [c1 EXCEPT !.cst = "absent", !.np = 0, !.kill = FALSE,
                            !.r.result = "ok", !.ended = TRUE]
            ELSE [c1 EXCEPT !.r.result = "error",
                            !.r.faulted = {"removeContainer"}]
        ) : c \in {c0} })

\* ------------------------------------------------------------------ actions
\* The inputs of one script run: which gateway calls fail, and the
\* iterations field (what it shows, and the value last committed).
NoFault ==
    [status |-> FALSE, probe |-> FALSE, kill |-> FALSE, build |-> FALSE,
     find |-> FALSE, resolve |-> FALSE, exec |-> FALSE,
     typed |-> IterDefault, committed |-> IterDefault]

\* A read cycle probes only after the status query answered, and kills only
\* after the probe answered, so at most one of the three is chosen to fail.
PollFaults ==
    { [NoFault EXCEPT !.status = (x = "status"), !.probe = (x = "probe")] :
          x \in {"none", "status", "probe"} }

StopFaults ==
    PollFaults \cup { [NoFault EXCEPT !.kill = TRUE] }

\* A launch stops at its first failing step, so at most one of its calls
\* is chosen to fail.
LaunchFaults ==
    { [g EXCEPT !.build = (x = "build"), !.find = (x = "find"),
                !.resolve = (x = "resolve"), !.exec = (x = "exec")] :
          g \in PollFaults, x \in {"none", "build", "find", "resolve", "exec"} }

\* entries of the iterations field around its bounds
TypedValues == {IterMin - 1, IterMin, IterMax, IterMax + 1}

\* the value the field held before the entry: the entry itself when it is
\* within the bounds, else the default or the bound next to the entry
CommittedValues(n) ==
    IF n < IterMin THEN {IterMin, IterDefault}
    ELSE IF n > IterMax THEN {IterDefault, IterMax}
    ELSE {n}

\* The entry is only passed through to the gateway, so it is varied on the
\* launch whose calls all succeed and on the one that fails at its first
\* call; the launches with other faults are made with the default entry.
LaunchInputs ==
    LaunchFaults \cup
    { [g EXCEPT !.typed = nm[1], !.committed = nm[2]] :
          g \in {NoFault, [NoFault EXCEPT !.build = TRUE]},
          nm \in UNION { {<<n, m>> : m \in CommittedValues(n)} : n \in TypedValues } }

Bump(n) == IF n < MaxReports THEN n + 1 ELSE n

\* the state a finished (or died) script leaves behind
Commit(c) ==
    /\ cstatus' = c.cst
    /\ procs' = c.np
    /\ kill_pending' = c.kill
    /\ state_file' = c.file
    /\ host_log' = c.log
    /\ session' = IF c.crashed THEN FreshSession ELSE c.s
    /\ widgets' = IF c.crashed THEN {} ELSE c.w
    /\ last' = IF c.crashed
               THEN [c.r EXCEPT !.op = "crash", !.result = "none"]
               ELSE c.r
    /\ written' = c.wr
    /\ completed_reports' =
           IF c.r.wrote THEN 0
           ELSE IF c.r.view = "Completed" THEN Bump(completed_reports)
           ELSE completed_reports
    /\ UNCHANGED clock

ScriptRun(click, f, cut) ==
    \E c \in {render_java_container_section(Context(click), click, f, cut)} :
        Commit(c)

\* a timed or first script run with no button pressed: one read cycle
Poll ==
    /\ \E f \in PollFaults : ScriptRun("none", f, NChunks)

\* the run started by pressing Stop
StopClick ==
    /\ "stop" \in widgets
    /\ \E f \in StopFaults : ScriptRun("stop", f, NChunks)

\* the run started by pressing Build & Run
LaunchClick ==
    /\ "build_run" \in widgets
    /\ procs < MaxProcs
    /\ \E f \in LaunchInputs : ScriptRun("build_run", f, NChunks)

\* the same run when the controller process dies inside save_process_state
\* (the save is reached only when build, resolution and exec all succeeded)
LaunchCrash ==
    /\ "build_run" \in widgets
    /\ procs < MaxProcs
    /\ \E f \in PollFaults, cut \in 0..(NChunks - 1) :
          /\ render_java_container_section(Context("build_run"), "build_run",
                                           f, cut).crashed
          /\ ScriptRun("build_run", f, cut)

RemoveClick ==
    /\ \E fs \in BOOLEAN, fr \in BOOLEAN :
        /\ remove_button_shown(session, cstatus, fs)
        /\ Commit(render_remove_container_button(
                      [Context("remove") EXCEPT !.w = widgets], fr))

\* the controller process restarts: a new session, nothing in memory
Restart ==
    /\ session.init
    /\ session' = FreshSession
    /\ widgets' = {}
    /\ last' = [Idle EXCEPT !.op = "restart", !.pre_file = state_file]
    /\ UNCHANGED <<cstatus, procs, kill_pending, state_file, host_log, clock,
                   written, completed_reports>>

\* --- the runtime and the workload, between script runs
EnvFrame ==
    /\ last' = Idle
    /\ UNCHANGED <<state_file, session, widgets, written, completed_reports>>

WorkloadExits ==
    /\ cstatus = "running" /\ procs > 0
    /\ procs' = procs - 1
    /\ EnvFrame /\ UNCHANGED <<cstatus, kill_pending, host_log, clock>>

WorkloadWrites ==
    /\ cstatus = "running" /\ procs > 0
    /\ host_log.exists /\ Len(host_log.lines) < MaxLog
    /\ host_log' = [host_log EXCEPT !.lines = Append(@, Len(@) + 1)]
    /\ EnvFrame /\ UNCHANGED <<cstatus, procs, kill_pending, clock>>

KillLands ==
    /\ kill_pending
    /\ procs' = 0
    /\ kill_pending' = FALSE
    /\ EnvFrame /\ UNCHANGED <<cstatus, host_log, clock>>

ContainerStops ==
    /\ cstatus \in {"running", "paused"}
    /\ cstatus' = "exited"
    /\ procs' = 0
    /\ kill_pending' = FALSE
    /\ EnvFrame /\ UNCHANGED <<host_log, clock>>

ContainerPauses ==
    /\ cstatus = "running"
    /\ cstatus' = "paused"
    /\ EnvFrame /\ UNCHANGED <<procs, kill_pending, host_log, clock>>

ContainerUnpauses ==
    /\ cstatus = "paused"
    /\ cstatus' = "running"
    /\ EnvFrame /\ UNCHANGED <<procs, kill_pending, host_log, clock>>

ExternalRemove ==
    /\ cstatus # "absent"
    /\ cstatus' = "absent"
    /\ procs' = 0
    /\ kill_pending' = FALSE
    /\ EnvFrame /\ UNCHANGED <<host_log, clock>>

ExternalCreate ==
    /\ cstatus = "absent"
    /\ cstatus' = "created"
    /\ EnvFrame /\ UNCHANGED <<procs, kill_pending, host_log, clock>>

Tick ==
    /\ clock < MaxClock
    /\ clock' = clock + 1
    /\ EnvFrame /\ UNCHANGED <<cstatus, procs, kill_pending, host_log>>

Init ==
    /\ cstatus = "absent"
    /\ procs = 0
    /\ kill_pending = FALSE
    /\ state_file = NoFile
    /\ host_log = NoLog
    /\ session = FreshSession
    /\ widgets = {}
    /\ clock = 1
    /\ last = Idle
    /\ written = NoWrite
    /\ completed_reports = 0

Next ==
    \/ Poll
    \/ StopClick
    \/ LaunchClick
    \/ LaunchCrash
    \/ RemoveClick
    \/ Restart
    \/ WorkloadExits
    \/ WorkloadWrites
    \/ KillLands
    \/ ContainerStops
    \/ ContainerPauses
    \/ ContainerUnpauses
    \/ ExternalRemove
    \/ ExternalCreate
    \/ Tick

Spec == Init /\ [][Next]_vars

\* the controller holds the run to be Active: in memory, or in the persisted
\* state a new session will load
Believes ==
    \/ session.init /\ session.is_running
    \/ /\ ~session.init
       /\ StateTruthy(load_process_state(state_file))
       /\ StateGetBool(load_process_state(state_file), "is_running", FALSE)

\* The read cycle that follows without a press: _stream_live_logs ends every
\* Active run with sleep(1) and st.rerun(), and a new session that finds a
\* persisted run makes its first run on page load.  Outside these cases the
\* script runs only when the operator acts.
Rerun == Believes /\ Poll

\* a read cycle that is due cannot be put off forever
LiveSpec == Init /\ [][Next]_vars /\ WF_vars(Rerun)

TypeOK ==
    /\ cstatus \in Statuses
    /\ procs \in 0..MaxProcs
    /\ kill_pending \in BOOLEAN
    /\ state_file.exists \in BOOLEAN
    /\ host_log.exists \in BOOLEAN
    /\ session.is_running \in BOOLEAN
    /\ widgets \subseteq {"stop", "build_run"}
    /\ clock \in 1..MaxClock
    /\ completed_reports \in 0..MaxReports
    /\ (procs > 0 => cstatus \in {"running", "paused"})


\* ------------------------------------------------------------------- claims

\* C1 (as stated): after any stop operation, also one whose kill command
\* failed at the gateway, the persisted state is absent.
C1_StopAlwaysClears ==
    (last.op = "render" /\ last.handler = "stop") => ~state_file.exists

\* C2: a read cycle presents the run as Active only after it has, in that
\* same cycle, seen the container running and the workload probe positive
\* (and both are true of the runtime); a belief that the cycle did not
\* confirm is false, and the persisted state gone, when the cycle ends.
C2_ActiveOnlyRevalidated ==
    /\ last.view = "Active" =>
          /\ last.polled
          /\ last.seen_status = "running" /\ last.seen_probe = "pos"
          /\ cstatus = "running" /\ procs > 0
    /\ (last.op = "render" /\ session.is_running) =>
          (last.view = "Active" \/ last.wrote)
    /\ (last.op = "render" /\ last.pre_belief /\ last.view # "Active"
           /\ ~last.wrote) =>
          (~session.is_running /\ ~state_file.exists)

\* C2 witness: the first cycle of a fresh controller that read a persisted
\* state presents Active.
C2_Witness ==
    last.op = "render" /\ last.loaded /\ last.pre_belief /\ last.view = "Active"

\* C3: when a launch fails (build, container resolution or exec), no state is
\* persisted and the belief is false when the launch returns.
C3_FailedLaunchLeavesNoState ==
    (last.op = "render" /\ last.handler = "launch" /\ last.result = "error") =>
        (~state_file.exists /\ ~session.is_running /\ ~last.wrote)

\* C3 witness: a launch whose exec failed after the container was created.
C3_Witness ==
    /\ last.handler = "launch" /\ last.result = "error"
    /\ "execDetached" \in last.faulted /\ last.action = "created"

InSeq(x, seq) == \E i \in 1..Len(seq) : seq[i] = x

\* C4: container resolution follows the table: Running - no command, tag
\* reused; Stopped - startExisting, tag started; Absent - createAndStart, tag
\* created (the tag is given when the command succeeded).
C4_DecisionTable ==
    (last.op = "render" /\ last.handler = "launch") =>
        /\ last.found = "running" =>
              /\ ~InSeq("startExisting", last.calls)
              /\ ~InSeq("createAndStart", last.calls)
              /\ last.action = "reused"
        /\ last.found = "exited" =>
              /\ InSeq("startExisting", last.calls)
              /\ ~InSeq("createAndStart", last.calls)
              /\ last.action =
                    (IF "startExisting" \in last.faulted THEN "none" ELSE "started")
        /\ last.found = "absent" =>
              /\ InSeq("createAndStart", last.calls)
              /\ ~InSeq("startExisting", last.calls)
              /\ last.action =
                    (IF "createAndStart" \in last.faulted THEN "none" ELSE "created")

\* C4 witness: a launch that found the container stopped and started it.
C4_Witness ==
    last.handler = "launch" /\ last.found = "exited" /\ last.action = "started"


\* C5: a fresh controller that reads the state a launch persisted, and whose
\* first poll finds the container not running or no workload in it, clears
\* the persisted state and reports Completed; Completed is reported at most
\* once for one launch.
C5_CompletedExactlyOnce ==
    /\ (last.op = "render" /\ last.loaded /\ last.pre_belief
           /\ (cstatus # "running" \/ procs = 0)) =>
          /\ last.view = "Completed"
          /\ ~state_file.exists
          /\ ~session.is_running
          /\ completed_reports = 1
    /\ completed_reports <= 1

\* C5 witness: the fresh controller found the container stopped.
C5_Witness ==
    /\ last.op = "render" /\ last.loaded /\ last.pre_belief
    /\ last.seen_status = "exited" /\ last.view = "Completed"

\* C6: a fresh controller that reads the state a launch persisted, and whose
\* poll finds container and workload running, stays Active and leaves the
\* persisted state as the launch wrote it: it reads back with the isRunning,
\* startTime, logFilePath and containerName the launch passed to the save.
C6_RoundTripRunning ==
    (last.op = "render" /\ last.loaded /\ last.view = "Active") =>
        LET st == load_process_state(state_file)
        IN  /\ session.is_running
            /\ state_file = last.pre_file
            /\ st.ok
            /\ StateGetBool(st, "is_running", FALSE) = written.is_running
            /\ written.is_running
            /\ StateGetStr(st, "start_time", NoneV) = written.start_time
            /\ StateGetStr(st, "log_file", NoneV) = written.log_file
            /\ StateGetStr(st, "container_name", NoneV) = written.container_name
            /\ StateGetStr(st, "pid", "missing") = NoneV
            /\ session.start_time = written.start_time
            /\ session.log_file = written.log_file
            /\ session.container_name = written.container_name

\* C6 witness: the round trip of a state written at the second clock reading.
C6_Witness ==
    /\ last.op = "render" /\ last.loaded /\ last.view = "Active"
    /\ written.start_time = strftime(2)

C8_GatewayErrorsSurface ==
    (last.faulted \ {"probe"}) # {} =>
        (last.result = "error" /\ ~last.raised)

\* C9: remove is performed only when no run is believed in progress, and the
\* persisted state is the same before and after it, whether the removal
\* succeeds or fails.
C9_RemoveFrame ==
    last.op = "remove" =>
        (~last.pre_belief /\ state_file = last.pre_file
         /\ ~session.is_running)

\* C9 witness: a removal that failed at the gateway.
C9_Witness ==
    last.op = "remove" /\ last.result = "error"

\* C10 (as stated): the state file is never partially written: whenever it
\* exists it holds a complete snapshot.
C10_NeverPartiallyWritten ==
    state_file.exists => json_valid(state_file.data)


LaunchCalls ==
    {"buildImage", "findContainer", "startExisting", "createAndStart",
     "execDetached"}

C12_ProbeDecidesPoll ==
    (last.op = "render" /\ last.click = "none" /\ last.polled) =>
        /\ (last.view = "Active" => last.seen_probe = "pos")
        /\ (last.seen_status = "running") =>
               /\ last.seen_probe \in {"pos", "neg"}
               /\ ("probe" \in last.faulted => last.seen_probe = "neg")
               /\ (last.seen_probe = "neg") =>
                      /\ last.view = "Completed"
                      /\ ~state_file.exists
                      /\ ~session.is_running
                      /\ last.result = "none"
                      /\ ~last.raised
               /\ (last.seen_probe = "pos") =>
                      /\ last.view = "Active"
                      /\ last.pre_file.exists
                      /\ state_file = last.pre_file
                      /\ session.is_running
                      /\ last.logs = read_logs(host_log)

\* a poll whose probe failed while the workload was running
C12_Witness ==
    /\ last.op = "render" /\ last.click = "none" /\ last.polled
    /\ last.seen_status = "running" /\ "probe" \in last.faulted
    /\ last.view = "Completed" /\ last.pre_file.exists /\ procs > 0

\* C13: right after the launch-time prepare step the log artifact exists and
\* reads as empty, whatever it held before; and whenever the controller shows
\* the log of an Active run, what it shows is the whole current content, that
\* is every line the workload wrote since the reset, in order.
C13_LogResetAndWholeRead ==
    /\ (last.op \in {"render", "crash"} /\ last.handler = "launch") =>
           /\ host_log.exists
           /\ host_log.lines = <<>>
           /\ read_logs(host_log) = <<>>
    /\ (last.op = "render" /\ last.view = "Active"
           /\ ~(last.handler = "stop" /\ last.result = "ok")) =>
           /\ last.logs = host_log.lines
           /\ last.logs = [i \in 1..Len(host_log.lines) |-> i]

\* an Active poll that shows a log of two writes
C13_Witness ==
    /\ last.op = "render" /\ last.view = "Active" /\ last.click = "none"
    /\ Len(last.logs) = MaxLog /\ Len(last.pre_log) = MaxLog

\* a launch that found a log of two writes and left it empty
C13_ResetWitness ==
    /\ last.op = "render" /\ last.handler = "launch"
    /\ Len(last.pre_log) = MaxLog /\ host_log.lines = <<>>

\* the order the launch steps are specified in
LaunchOrder ==
    <<"logReset", "buildImage", "resolve", "execDetached", "persist">>

\* C14: the steps of one launch attempt are a prefix of log reset, buildImage,
\* container resolution, execDetached, persist; the step that failed is the
\* last one taken; the state is written exactly when execDetached succeeded,
\* and what is written is isRunning=true, the launch's log path and the
\* managed container name.
C14_LaunchStepsInOrder ==
    (last.op \in {"render", "crash"} /\ last.handler = "launch") =>
        LET n == Len(last.steps)
            failed == last.faulted \cap LaunchCalls
        IN  /\ n >= 2
            /\ last.steps = SubSeq(LaunchOrder, 1, n)
            /\ ("buildImage" \in failed) = (n = 2)
            /\ (failed \cap {"findContainer", "startExisting", "createAndStart"} # {}
                    \/ ~last.unpacked) = (n = 3)
            /\ ("execDetached" \in failed) = (n = 4)
            /\ (failed = {} /\ last.unpacked) = (n = 5)
            /\ last.wrote = (InSeq("execDetached", last.calls)
                                 /\ "execDetached" \notin failed)
            /\ last.wrote = (n = 5)
            /\ last.wrote =>
                   /\ written.is_running = TRUE
                   /\ written.log_file = HostLogFile
                   /\ written.container_name = ContainerName
            /\ (last.wrote /\ last.op = "render") =>
                   LET st == load_process_state(state_file)
                   IN  /\ st.ok
                       /\ StateGetBool(st, "is_running", FALSE) = TRUE
                       /\ StateGetStr(st, "log_file", NoneV) = HostLogFile
                       /\ StateGetStr(st, "container_name", NoneV) = ContainerName
            /\ ~last.wrote => ~state_file.exists

\* a launch that stopped at a failed execDetached
C14_Witness ==
    /\ last.op = "render" /\ last.handler = "launch"
    /\ "execDetached" \in last.faulted
    /\ last.steps = SubSeq(LaunchOrder, 1, 4) /\ ~last.wrote

\* C15: whatever status the runtime reports for an existing container, a
\* launch whose gateway calls all succeed obtains a (container, action) pair
\* with action reused, started or created, and goes on to execDetached.
C15_EveryStatusResolved ==
    (last.op \in {"render", "crash"} /\ last.handler = "launch"
         /\ last.found \in Statuses \ {"absent"}
         /\ last.faulted \cap LaunchCalls = {}) =>
        /\ last.unpacked
        /\ last.action \in {"reused", "started", "created"}
        /\ InSeq("execDetached", last.calls)

\* C16: at the end of every controller operation (a script run that
\* initializes, polls, launches or stops, successful or not, and a removal)
\* the belief is_running is true exactly when a persisted state exists, and a
\* persisted state is a complete one with is_running = true.
C16_BeliefMatchesPersistence ==
    (last.op \in {"render", "remove"}) =>
        /\ session.init
        /\ session.is_running = state_file.exists
        /\ state_file.exists =>
               LET st == load_process_state(state_file)
               IN  /\ st.ok
                   /\ StateGetBool(st, "is_running", FALSE) = TRUE

\* a stop that failed: belief and persisted state both kept
C16_Witness ==
    /\ last.op = "render" /\ last.handler = "stop" /\ last.result = "error"
    /\ session.is_running /\ state_file.exists

\* a launch whose execDetached succeeded
Launched ==
    /\ last.op \in {"render", "crash"} /\ last.handler = "launch"
    /\ InSeq("execDetached", last.calls) /\ "execDetached" \notin last.faulted

\* C17: at most one workload process runs in the container at any time (a
\* launch never starts one while another is running), and no kill issued by
\* an earlier stop is still on its way when a launch has started a workload.
C17_AtMostOneWorkload ==
    /\ procs <= 1
    /\ Launched => ~kill_pending

\* the two halves of C17, each violated on its own
C17_NoSecondWorkload == procs <= 1

C17_NoKillOfLaterLaunch == Launched => ~kill_pending

\* no workload process is running in a running container
WorkloadGone == ~(cstatus = "running" /\ procs > 0)

\* a run reported Completed and left no belief, no persisted state and an
\* enabled Build & Run button
Reconciled ==
    /\ last.op = "render" /\ last.view = "Completed"
    /\ session.init /\ ~session.is_running
    /\ ~state_file.exists
    /\ "build_run" \in widgets

\* C18: under repeated polling, whenever the controller believes the run
\* Active while the workload is not running, then, unless a workload is
\* running again, a run eventually reports Completed with the belief false,
\* the persisted state cleared and launch enabled.
C18_EventuallyReconciled ==
    (Believes /\ WorkloadGone) ~> (Reconciled \/ ~WorkloadGone)

\* a poll that found the believed workload gone and reconciled
C18_Witness ==
    /\ Reconciled /\ last.click = "none" /\ last.pre_belief
    /\ last.seen_probe = "neg" /\ procs = 0 /\ last.faulted = {}

====
